---- MODULE Spec2Model ----
(***************************************************************************)
(* A model of the gdrr-2bp optimisation core: the Problem state            *)
(* (src/src/optimization/problem.rs) and the global solution collector     *)
(* (src/src/optimization/sol_collectors/global_sol_collector.rs).          *)
(*                                                                         *)
(* Layout, Node, the worker threads and the assertion helpers are not part *)
(* of the sources at hand; they are modelled from the specification and    *)
(* are marked as such where they are defined.                              *)
(***************************************************************************)
EXTENDS Integers, Sequences, FiniteSets, TLC

\* ------------------------------------------------------------------ bounds
NumPartTypes == 2
NumSheetTypes == 2
MaxDemand == 1
MaxStock == 1
\* number of layouts the caller makes for itself
MaxCallerLayouts == 1
\* number of leaves below a layout's top node
MaxLeaves == 2
\* number of calls made on the Problem in one behaviour
MaxCalls == 3
\* usize arithmetic is modelled modulo UsizeModulus (the width scaled down)
UsizeModulus == 8

\* ---- collector
NumWorkers == 3
\* material costs range over 1 .. MaxCost
MaxCost == 2
\* part_area_excluded of an incomplete solution ranges over 1 .. MaxArea
MaxArea == 1
\* number of reports the workers send in one behaviour
MaxReports == 2
\* config.max_run_time ranges over 0 .. MaxRunTime (seconds)
MaxRunTime == 1

\* ---- parser
\* width and height of a node range over 1 .. MaxDim
MaxDim == 2

PartTypes == 0 .. (NumPartTypes - 1)
SheetTypes == 0 .. (NumSheetTypes - 1)
UsizeMax == UsizeModulus - 1

\* Option<T> is a sequence of length 0 (None) or 1 (Some)
None == << >>
Some(x) == << x >>
IsNone(o) == o = << >>
IsSome(o) == o # << >>
Unwrap(o) == o[1]

VARIABLES
    \* ---- Instance (immutable once chosen) and build profile
    demand,             \* instance.parts(): demand per part type id
    stock,              \* instance.sheets(): stock per sheet type id
    debug_build,        \* TRUE: debug_assert! and overflow checks are compiled in
    \* ---- Problem fields (problem.rs:13-21)
    parttype_qtys,
    sheettype_qtys,
    layouts,            \* Vec of layout handles
    empty_layouts,      \* Vec of layout handles
    counter_layout_id,
    \* ---- the heap of Rc<RefCell<Layout>> cells, a handle is an index
    heap,
    \* ---- the caller
    problem_pc,         \* "new", "ready" or "panicked"
    last_call,          \* history: the most recent call on the Problem and its number
    \* ---- GlobalSolCollector fields (global_sol_collector.rs:21-31)
    max_run_time,       \* config.max_run_time
    cost_comparator,    \* "MatThenArea" or "AreaThenMat"
    best_complete_solution,
    best_incomplete_solution,
    best_incomplete_cost,
    material_limit,
    tx_syncs,           \* per worker: every message sent on its sync channel
    rx_solution_report, \* the reports in flight, oldest first
    \* ---- GlobalSolCollector::monitor
    monitor_pc,
    running,            \* the AtomicBool the Ctrl-C handler clears
    elapsed,            \* whole seconds since start_time
    joined,             \* the handles monitor has joined
    terminate_sends,    \* history: per worker, the sends of Terminate attempted
    initial_material_limit,  \* history: the material_limit given to new
    \* ---- worker threads
    worker_pc,          \* per worker: "running" or "finished"
    rx_sync_pos,        \* per worker: how many sync messages it has received
    n_reports,          \* reports sent so far
    \* ---- io::parser
    json_instance,      \* the JsonInstance handed to generate_instance (&mut)
    config,             \* the Config handed to generate_instance
    instance,           \* Option: the Instance generate_instance returned
    node_bp,            \* the NodeBlueprint handed to convert_node_bp_to_json_cp_node
    cp_node,            \* Option: the JsonCPNode it returned
    parser_pc

problem_vars == << demand, stock, debug_build, parttype_qtys, sheettype_qtys,
                   layouts, empty_layouts, counter_layout_id, heap,
                   problem_pc, last_call >>

collector_vars == << max_run_time, cost_comparator, best_complete_solution,
                     best_incomplete_solution, best_incomplete_cost,
                     material_limit, tx_syncs, rx_solution_report, monitor_pc,
                     running, elapsed, joined, terminate_sends,
                     initial_material_limit, worker_pc, rx_sync_pos, n_reports >>

parser_vars == << json_instance, config, instance, node_bp, cp_node, parser_pc >>

vars == << problem_vars, collector_vars, parser_vars >>

\* ------------------------------------------------------------ Layout tree
\* A layout's top node is a Structure; its leaves are kept in order.  A leaf
\* is Leftover or the part type id of an Item.
Leftover == -1

IsItem(leaf) == leaf # Leftover

Layout(sheettype, leaves) == [sheettype |-> sheettype, top_node |-> leaves]

\* Layout of a pristine sheet: the top node with a single Leftover child
EmptyLayout(sheettype) == Layout(sheettype, << Leftover >>)

RECURSIVE MergeLeftovers(_)
MergeLeftovers(leaves) ==
    IF Len(leaves) < 2 THEN leaves
    ELSE IF leaves[1] = Leftover /\ leaves[2] = Leftover
         THEN MergeLeftovers(Tail(leaves))
         ELSE << leaves[1] >> \o MergeLeftovers(Tail(leaves))

\* Layout::implement_insertion_blueprint: the target leaf is replaced by the
\* blueprint's replacement nodes
LayoutInsert(layout, original_node, replacements) ==
    [layout EXCEPT !.top_node =
        SubSeq(@, 1, original_node - 1) \o replacements
            \o SubSeq(@, original_node + 1, Len(@))]

\* Layout::remove_node: the Item becomes a Leftover and the tree is simplified
LayoutRemove(layout, node) ==
    [layout EXCEPT !.top_node = MergeLeftovers([@ EXCEPT ![node] = Leftover])]

\* the part types released by Layout::remove_node
ReleasedParts(layout, node) == << layout.top_node[node] >>

\* Layout::is_empty: the top node has no Item descendant
LayoutIsEmpty(layout) == \A i \in DOMAIN layout.top_node : ~IsItem(layout.top_node[i])

\* Layout::create_deep_copy: a structurally identical, independent tree
CreateDeepCopy(layout) == Layout(layout.sheettype, layout.top_node)

\* number of Item(p) leaves of a layout
RECURSIVE CountLeaves(_, _)
CountLeaves(leaves, p) ==
    IF leaves = << >> THEN 0
    ELSE (IF leaves[1] = p THEN 1 ELSE 0) + CountLeaves(Tail(leaves), p)

\* -------------------------------------------------------- InsertionBlueprint
\* insertion_blueprint.rs:20-23 followed by set_layout
NewBlueprint(original_node, replacements, parttype) ==
    [original_node |-> original_node, replacements |-> replacements,
     parttype |-> parttype, layout |-> None]

set_layout(bp, layout) == [bp EXCEPT !.layout = Some(layout)]

set_original_node(bp, original_node) == [bp EXCEPT !.original_node = original_node]

\* ------------------------------------------------------------ Problem state
\* The Problem (and the heap its handles point into) as one value, so that the
\* methods below are functions from state to state.
ProblemState ==
    [parttype_qtys |-> parttype_qtys, sheettype_qtys |-> sheettype_qtys,
     layouts |-> layouts, empty_layouts |-> empty_layouts,
     counter_layout_id |-> counter_layout_id, heap |-> heap,
     panicked |-> FALSE, created_new_layout |-> FALSE]

Panic(st) == [st EXCEPT !.panicked = TRUE]

InSeq(x, s) == \E k \in DOMAIN s : s[k] = x

\* assertions::layout_belongs_to_problem
layout_belongs_to_problem(st, layout) == InSeq(layout, st.layouts)

\* problem.rs:114-119
register_part(st, id, qty) ==
    IF debug_build /\ st.parttype_qtys[id] < qty
    THEN Panic(st)
    ELSE [st EXCEPT !.parttype_qtys[id] = (@ - qty) % UsizeModulus]

\* a release that hands nothing back
release_part_Nothing(st, id, qty) == st

\* problem.rs:121-126
release_part(st, id, qty) ==
    IF debug_build /\ st.parttype_qtys[id] + qty > demand[id]
    THEN Panic(st)
    ELSE [st EXCEPT !.parttype_qtys[id] = (@ + qty) % UsizeModulus]

\* problem.rs:128-133
register_sheet(st, id, qty) ==
    IF debug_build /\ st.sheettype_qtys[id] < qty
    THEN Panic(st)
    ELSE [st EXCEPT !.sheettype_qtys[id] = (@ - qty) % UsizeModulus]

\* problem.rs:135-140
release_sheet(st, id, qty) ==
    IF debug_build /\ st.sheettype_qtys[id] + qty > stock[id]
    THEN Panic(st)
    ELSE [st EXCEPT !.sheettype_qtys[id] = (@ + qty) % UsizeModulus]

\* a register_layout that pushes the layout and registers nothing
register_layout_PushOnly(st, layout) ==
    [st EXCEPT !.layouts = Append(@, layout)]

\* problem.rs:103-106: todo!() panics, the push after it is never reached
register_layout(st, layout) == Panic(st)

\* problem.rs:108-112: the debug assertion, then todo!() panics; retain is
\* never reached
release_layout(st, layout) == Panic(st)

\* Unwinding after a panic drops the Rc cells that only locals referred to:
\* here the deep copy made at problem.rs:47, the last cell of the heap.
DropUnreferenced(st, h) ==
    IF InSeq(h, st.layouts) \/ InSeq(h, st.empty_layouts) THEN st
    ELSE [st EXCEPT !.heap = SubSeq(@, 1, Len(@) - 1)]

\* a test that takes every layout for an active one
blueprint_creates_new_layout_Never(st, blueprint_layout) == FALSE

\* problem.rs:38
blueprint_creates_new_layout(st, blueprint_layout) ==
    \E k \in DOMAIN st.empty_layouts : st.empty_layouts[k] = blueprint_layout

\* problem.rs:41-45
implement_on_active(st, bp, blueprint_layout) ==
    LET st1 == register_part(st, bp.parttype, 1)
    IN  IF st1.panicked THEN st1
        ELSE [st1 EXCEPT !.heap[blueprint_layout] =
                 LayoutInsert(@, bp.original_node, bp.replacements)]

\* problem.rs:46-64
implement_on_template(st, bp, blueprint_layout) ==
    LET copy == CreateDeepCopy(st.heap[blueprint_layout])
        h == Len(st.heap) + 1
        st1 == [st EXCEPT !.heap = Append(@, copy)]
        \* children().first() of the copy's top node
        insertion_bp_copy == set_layout(set_original_node(bp, 1), h)
        st2 == register_layout(st1, h)
    IN  IF st2.panicked THEN DropUnreferenced(st2, h)
        ELSE [st2 EXCEPT
                 !.heap[h] = LayoutInsert(@, insertion_bp_copy.original_node,
                                            insertion_bp_copy.replacements),
                 !.created_new_layout = TRUE]

\* problem.rs:35-69
implement_insertion_blueprint(st, bp) ==
    LET blueprint_layout == Unwrap(bp.layout)
    IN  IF blueprint_creates_new_layout(st, blueprint_layout)
        THEN implement_on_template(st, bp, blueprint_layout)
        ELSE implement_on_active(st, bp, blueprint_layout)

\* problem.rs:78: released_parts.iter().for_each(release_part)
RECURSIVE ReleaseAll(_, _)
ReleaseAll(st, released_parts) ==
    IF released_parts = << >> \/ st.panicked THEN st
    ELSE ReleaseAll(release_part(st, released_parts[1], 1), Tail(released_parts))

\* problem.rs:71-82
remove_node(st, node, layout) ==
    IF debug_build /\ ~layout_belongs_to_problem(st, layout)
    THEN Panic(st)
    ELSE LET released_parts == ReleasedParts(st.heap[layout], node)
             st1 == [st EXCEPT !.heap[layout] = LayoutRemove(@, node)]
             st2 == ReleaseAll(st1, released_parts)
         IN  IF st2.panicked THEN st2
             ELSE IF LayoutIsEmpty(st2.heap[layout])
                  THEN release_layout(st2, layout)
                  ELSE st2

\* ------------------------------------------------------------------ actions
NoCall == [seq |-> 0, op |-> "none", template |-> FALSE, active |-> FALSE,
           returned |-> FALSE,
           layout |-> 0, node |-> 0, parttype |-> 0, created_new_layout |-> FALSE,
           before |-> << >>]

\* problem.rs:24-33, for the instances within the bounds: every part type is
\* demanded, a sheet type is out of stock or has MaxStock sheets
ProblemNew ==
    /\ demand \in [PartTypes -> 1 .. MaxDemand]
    /\ stock \in [SheetTypes -> {0, MaxStock}]
    /\ debug_build \in BOOLEAN
    /\ parttype_qtys = demand
    /\ sheettype_qtys = stock
    /\ layouts = << >>
    /\ empty_layouts = << >>
    /\ counter_layout_id = 0
    /\ heap = << >>
    /\ problem_pc = "new"
    /\ last_call = NoCall

\* the sheet types with remaining stock, in id order
RECURSIVE StockedSheetTypes(_, _)
StockedSheetTypes(qtys, s) ==
    IF s >= NumSheetTypes THEN << >>
    ELSE (IF qtys[s] > 0 THEN << s >> ELSE << >>) \o StockedSheetTypes(qtys, s + 1)

\* The worker seeds its Problem with one empty template per sheet type that
\* has stock left.
SeedEmptyLayouts ==
    /\ problem_pc = "new"
    /\ LET stocked == StockedSheetTypes(sheettype_qtys, 0)
       IN  /\ heap' = [k \in 1 .. Len(stocked) |-> EmptyLayout(stocked[k])]
           /\ empty_layouts' = [k \in 1 .. Len(stocked) |-> k]
    /\ problem_pc' = "ready"
    /\ UNCHANGED << demand, stock, debug_build, parttype_qtys, sheettype_qtys,
                    layouts, counter_layout_id, last_call >>

\* The caller makes a layout of its own: a deep copy of an empty template (it
\* reads them through Problem::empty_layouts), wrapped in a new Rc that the
\* Problem does not know.
CallerCopiesLayout ==
    /\ problem_pc = "ready"
    /\ Len(heap) < Len(empty_layouts) + MaxCallerLayouts
    /\ \E k \in DOMAIN empty_layouts :
          heap' = Append(heap, CreateDeepCopy(heap[empty_layouts[k]]))
    /\ UNCHANGED << demand, stock, debug_build, parttype_qtys, sheettype_qtys,
                    layouts, empty_layouts, counter_layout_id,
                    problem_pc, last_call >>

\* A blueprint the enumerator can propose for a Leftover leaf of a layout: a
\* part type and the replacement nodes (the Item alone, or the Item and the
\* Leftover that remains); InsertionBlueprint::new followed by set_layout.
EnumeratedBlueprint(h, leaf, p, exact_fit) ==
    set_layout(NewBlueprint(leaf,
                            IF exact_fit THEN << p >> ELSE << p, Leftover >>,
                            p),
               h)

\* the layout has room for the replacement nodes
FitsLayout(layout, exact_fit) ==
    Len(layout.top_node) + (IF exact_fit THEN 0 ELSE 1) <= MaxLeaves

SetProblem(st) ==
    /\ parttype_qtys' = st.parttype_qtys
    /\ sheettype_qtys' = st.sheettype_qtys
    /\ layouts' = st.layouts
    /\ empty_layouts' = st.empty_layouts
    /\ counter_layout_id' = st.counter_layout_id
    /\ heap' = st.heap
    /\ problem_pc' = IF st.panicked THEN "panicked" ELSE "ready"

\* what a round trip is to restore
Counters == [parttype_qtys |-> parttype_qtys, sheettype_qtys |-> sheettype_qtys,
             layouts |-> layouts]

\* The record of a call: its number, the method, whether the layout it names
\* was an empty template or an active layout when the call was made, the
\* layout and the node (the leaf a commit fills, the Item a remove_node takes
\* out), the counters before the call and, for a call that returned, the part
\* type and the result.  A call that panicked returns nothing.
CallRecord(st, op, layout, node, parttype, template) ==
    [seq |-> last_call.seq + 1, op |-> op, template |-> template,
     active |-> InSeq(layout, layouts),
     returned |-> ~st.panicked,
     layout |-> layout,
     node |-> node,
     parttype |-> IF st.panicked THEN 0 ELSE parttype,
     created_new_layout |-> st.created_new_layout,
     before |-> Counters]

\* a call of Problem::implement_insertion_blueprint(&blueprint)
Commit ==
    /\ problem_pc = "ready"
    /\ last_call.seq < MaxCalls
    /\ \E h \in DOMAIN heap, p \in PartTypes, exact_fit \in BOOLEAN :
         /\ FitsLayout(heap[h], exact_fit)
         /\ \E leaf \in DOMAIN heap[h].top_node :
            /\ heap[h].top_node[leaf] = Leftover
            /\ LET bp == EnumeratedBlueprint(h, leaf, p, exact_fit)
               IN  \E st \in { implement_insertion_blueprint(ProblemState, bp) } :
                     /\ SetProblem(st)
                     /\ last_call' = CallRecord(st, "commit", h, leaf, p,
                                                InSeq(h, empty_layouts))
    /\ UNCHANGED << demand, stock, debug_build >>

\* a call of Problem::remove_node(node, layout) on an Item of a layout
RemoveNode ==
    /\ problem_pc = "ready"
    /\ last_call.seq < MaxCalls
    /\ \E h \in DOMAIN heap :
         \E node \in DOMAIN heap[h].top_node :
            /\ IsItem(heap[h].top_node[node])
            /\ \E st \in { remove_node(ProblemState, node, h) } :
                   /\ SetProblem(st)
                   /\ last_call' = CallRecord(st, "remove_node", h, node,
                                              heap[h].top_node[node], FALSE)
    /\ UNCHANGED << demand, stock, debug_build >>

\* ------------------------------------------------- properties of the Problem
\* a step that is a call of implement_insertion_blueprint
IsCommitStep == last_call'.seq # last_call.seq /\ last_call'.op = "commit"

\* a step that is a call of remove_node
IsRemoveStep == last_call'.seq # last_call.seq /\ last_call'.op = "remove_node"

RECURSIVE SumItems(_, _, _)
SumItems(handles, cells, p) ==
    IF handles = << >> THEN 0
    ELSE CountLeaves(cells[handles[1]].top_node, p) + SumItems(Tail(handles), cells, p)

\* number of Item(p) leaves across the active layouts
QtyUsed(p) == SumItems(layouts, heap, p)

\* number of active layouts of sheet type s
ActiveLayoutsOfType(s) ==
    Cardinality({k \in DOMAIN layouts : heap[layouts[k]].sheettype = s})

\* number of empty templates of sheet type s
TemplatesOfType(s) ==
    Cardinality({k \in DOMAIN empty_layouts : heap[empty_layouts[k]].sheettype = s})

\* C1: after any sequence of commit and remove_node calls, for every part
\* type p the Item(p) leaves of the active layouts plus parttype_qtys[p] equal
\* the demand of p.
C1_PartConservation ==
    problem_pc = "ready" =>
        \A p \in PartTypes : QtyUsed(p) + parttype_qtys[p] = demand[p]

\* C6: a commit whose blueprint targets an empty template completes, returns
\* created_new_layout = true, appends exactly one layout (the copy of the
\* template, now holding the one Item the blueprint places), takes one sheet of
\* the layout's type and one part of the blueprint's type.
C6_CommitOnTemplate ==
    [][(IsCommitStep /\ last_call'.template) =>
         LET t == last_call'.layout
             p == last_call'.parttype
             s == heap[t].sheettype
         IN  /\ problem_pc' = "ready"
             /\ last_call'.created_new_layout
             /\ Len(layouts') = Len(layouts) + 1
             /\ SubSeq(layouts', 1, Len(layouts)) = layouts
             /\ LET copy == heap'[layouts'[Len(layouts')]]
                IN  /\ copy.sheettype = s
                    /\ CountLeaves(copy.top_node, p) = 1
                    /\ \A q \in PartTypes \ {p} : CountLeaves(copy.top_node, q) = 0
             /\ sheettype_qtys' = [sheettype_qtys EXCEPT ![s] = @ - 1]
             /\ parttype_qtys' = [parttype_qtys EXCEPT ![p] = @ - 1]
      ]_vars

\* the sequence s without the element x
RECURSIVE Without(_, _)
Without(s, x) ==
    IF s = << >> THEN << >>
    ELSE (IF s[1] = x THEN << >> ELSE << s[1] >>) \o Without(Tail(s), x)

\* C7: remove_node hands back one part per released Item; if the layout has no
\* Item left it completes by taking the layout out of layouts and handing back
\* one sheet of its type, otherwise layouts and sheettype_qtys are unchanged.
\* Stated for the calls that get past the assertions of problem.rs:72-73.
C7_RemoveNode ==
    [][(IsRemoveStep /\ (~debug_build \/ last_call'.active)) =>
         LET h == last_call'.layout
             p == last_call'.parttype
             s == heap[h].sheettype
         IN  /\ problem_pc' = "ready"
             /\ parttype_qtys' = [parttype_qtys EXCEPT ![p] = @ + 1]
             /\ IF LayoutIsEmpty(heap'[h])
                THEN /\ layouts' = Without(layouts, h)
                     /\ sheettype_qtys' = [sheettype_qtys EXCEPT ![s] = @ + 1]
                ELSE /\ layouts' = layouts
                     /\ sheettype_qtys' = sheettype_qtys
      ]_vars

C9_OneTemplatePerStockedSheet ==
    \A s \in SheetTypes :
        TemplatesOfType(s) = (IF sheettype_qtys[s] > 0 THEN 1 ELSE 0)

\* the empty templates as they are first set up
InitialTemplates == StockedSheetTypes(stock, 0)

TemplatesPristine ==
    problem_pc # "new" =>
        /\ Len(empty_layouts) = Len(InitialTemplates)
        /\ \A k \in DOMAIN empty_layouts :
              /\ empty_layouts[k] = k
              /\ heap[k] = EmptyLayout(InitialTemplates[k])

C15_PartQtysWithinDemand ==
    \A p \in PartTypes : parttype_qtys[p] >= 0 /\ parttype_qtys[p] <= demand[p]

\* C16: a commit whose blueprint targets a layout that is not an empty
\* template returns created_new_layout = false, takes exactly one part of the
\* blueprint's part type and leaves layouts, sheettype_qtys, empty_layouts,
\* counter_layout_id and the other parttype_qtys as they were.
C16_CommitOnActiveLayout ==
    [][(IsCommitStep /\ ~last_call'.template) =>
         /\ problem_pc' = "ready"
         /\ last_call'.returned
         /\ ~last_call'.created_new_layout
         /\ parttype_qtys' =
                [parttype_qtys EXCEPT ![last_call'.parttype] = @ - 1]
         /\ UNCHANGED << layouts, sheettype_qtys, empty_layouts, counter_layout_id >>
      ]_vars

\* a remove_node that undoes the commit made just before it: same layout, the
\* Item the commit placed, another Item being in the layout; the call gets
\* past the assertions of problem.rs:72-73
IsUndoStep ==
    /\ IsRemoveStep
    /\ last_call.op = "commit" /\ last_call.returned /\ ~last_call.template
    /\ last_call'.layout = last_call.layout
    /\ last_call'.node = last_call.node
    /\ \E k \in DOMAIN heap[last_call.layout].top_node :
          k # last_call.node /\ IsItem(heap[last_call.layout].top_node[k])
    /\ ~debug_build \/ last_call'.active

Workers == 1 .. NumWorkers

Cost(material_cost, part_area_excluded) ==
    [material_cost |-> material_cost, part_area_excluded |-> part_area_excluded]

\* the costs of complete solutions (nothing excluded) and of incomplete ones
CompleteCosts == { Cost(m, 0) : m \in 1 .. MaxCost }
IncompleteCosts == { Cost(m, a) : m \in 1 .. MaxCost, a \in 1 .. MaxArea }

\* a SendableSolution or SolutionStats, of which the collector reads the cost
Solution(cost) == [cost |-> cost]

\* SolutionReportMessage; the thread name each variant carries is only
\* printed and is left out
ReportKinds == { "NewCompleteSolution", "NewIncompleteStats", "NewIncompleteSolution" }
Report(kind, solution) == [kind |-> kind, solution |-> solution]

\* SyncMessage
SyncMatLimit(limit) == [kind |-> "SyncMatLimit", limit |-> limit]
Terminate == [kind |-> "Terminate", limit |-> 0]

\* crate::COST_COMPARATOR: a lexicographic order on costs, by material cost
\* first or by excluded part area first
CompareBy(x, y, rest) == IF x < y THEN "Less" ELSE IF x > y THEN "Greater" ELSE rest
COST_COMPARATOR(a, b) ==
    IF cost_comparator = "MatThenArea"
    THEN CompareBy(a.material_cost, b.material_cost,
                   CompareBy(a.part_area_excluded, b.part_area_excluded, "Equal"))
    ELSE CompareBy(a.part_area_excluded, b.part_area_excluded,
                   CompareBy(a.material_cost, b.material_cost, "Equal"))

\* The collector's fields as one value, so that the report_* methods are
\* functions from state to state.
CollectorState ==
    [best_complete_solution |-> best_complete_solution,
     best_incomplete_solution |-> best_incomplete_solution,
     best_incomplete_cost |-> best_incomplete_cost,
     material_limit |-> material_limit,
     tx_syncs |-> tx_syncs,
     panicked |-> FALSE]

\* the worker's Receiver<SyncMessage> still exists: the thread owns it and
\* drops it when it ends
ReceiverAlive(w) == worker_pc[w] = "running"

\* global_sol_collector.rs:132-134: send to every worker in order; expect()
\* panics at the first channel whose receiver is gone
RECURSIVE SendSyncMatLimit(_, _, _)
SendSyncMatLimit(cs, w, material_cost) ==
    IF w > NumWorkers THEN cs
    ELSE IF ~ReceiverAlive(w) THEN [cs EXCEPT !.panicked = TRUE]
    ELSE SendSyncMatLimit(
             [cs EXCEPT !.tx_syncs[w] = Append(@, SyncMatLimit(material_cost))],
             w + 1, material_cost)

\* an acceptance test that lets a solution at the limit through
BelowMaterialLimit_OrEqual(material_cost, limit) == material_cost <= limit

\* global_sol_collector.rs:123 (and :151)
BelowMaterialLimit(material_cost, limit) == material_cost < limit

\* an acceptance that stores the solution and leaves material_limit as it was
report_new_complete_solution_KeepLimit(cs, solution) ==
    IF BelowMaterialLimit(solution.cost.material_cost, cs.material_limit)
    THEN IF \/ IsNone(cs.best_complete_solution)
            \/ solution.cost.material_cost <
                   Unwrap(cs.best_complete_solution).cost.material_cost
         THEN SendSyncMatLimit(
                  [cs EXCEPT !.best_incomplete_cost = None,
                             !.best_incomplete_solution = None,
                             !.best_complete_solution = Some(solution)],
                  1, solution.cost.material_cost)
         ELSE cs
    ELSE cs

\* global_sol_collector.rs:122-137
report_new_complete_solution(cs, solution) ==
    IF BelowMaterialLimit(solution.cost.material_cost, cs.material_limit)
    THEN IF \/ IsNone(cs.best_complete_solution)
            \/ solution.cost.material_cost <
                   Unwrap(cs.best_complete_solution).cost.material_cost
         THEN SendSyncMatLimit(
                  [cs EXCEPT !.best_incomplete_cost = None,
                             !.best_incomplete_solution = None,
                             !.material_limit = solution.cost.material_cost,
                             !.best_complete_solution = Some(solution)],
                  1, solution.cost.material_cost)
         ELSE cs
    ELSE cs

\* a replacement in which the new solution need not be strictly better
report_new_incomplete_solution_OrEqual(cs, solution) ==
    IF IsNone(cs.best_complete_solution)
    THEN [cs EXCEPT !.best_incomplete_solution = Some(solution)]
    ELSE cs

\* global_sol_collector.rs:139-148
report_new_incomplete_solution(cs, solution) ==
    IF IsNone(cs.best_complete_solution)
    THEN IF \/ IsNone(cs.best_incomplete_solution)
            \/ COST_COMPARATOR(solution.cost,
                               Unwrap(cs.best_incomplete_solution).cost) = "Less"
         THEN [cs EXCEPT !.best_incomplete_solution = Some(solution)]
         ELSE cs
    ELSE cs

\* global_sol_collector.rs:150-158
report_new_incomplete_cost(cs, stats) ==
    IF BelowMaterialLimit(stats.cost.material_cost, cs.material_limit)
    THEN IF \/ IsNone(cs.best_incomplete_cost)
            \/ COST_COMPARATOR(stats.cost, Unwrap(cs.best_incomplete_cost)) = "Less"
         THEN [cs EXCEPT !.best_incomplete_cost = Some(stats.cost)]
         ELSE cs
    ELSE cs

\* global_sol_collector.rs:73-84: the match on the message
HandleReport(cs, message) ==
    IF message.kind = "NewCompleteSolution"
    THEN report_new_complete_solution(cs, message.solution)
    ELSE IF message.kind = "NewIncompleteStats"
    THEN report_new_incomplete_cost(cs, message.solution)
    ELSE report_new_incomplete_solution(cs, message.solution)

\* a deadline test that gives up one second early
LoopCondition_EarlyDeadline == running /\ elapsed + 1 < max_run_time

\* global_sol_collector.rs:68-69: the while condition
LoopCondition == running /\ elapsed < max_run_time

\* global_sol_collector.rs:86
AllFinished == \A w \in Workers : worker_pc[w] = "finished"

\* GlobalSolCollector::new (global_sol_collector.rs:34-57) with the channels
\* and threads the caller hands over, and the entry of monitor (:59-66)
CollectorNew ==
    /\ max_run_time \in 0 .. MaxRunTime
    /\ cost_comparator \in { "MatThenArea", "AreaThenMat" }
    /\ best_complete_solution = None
    /\ best_incomplete_solution = None
    /\ best_incomplete_cost = None
    /\ material_limit \in 1 .. (MaxCost + 1)
    /\ initial_material_limit = material_limit
    /\ tx_syncs = [w \in Workers |-> << >>]
    /\ rx_solution_report = << >>
    /\ monitor_pc = "loop_test"
    /\ running = TRUE
    /\ elapsed = 0
    /\ joined = {}
    /\ terminate_sends = [w \in Workers |-> 0]
    /\ worker_pc = [w \in Workers |-> "running"]
    /\ rx_sync_pos = [w \in Workers |-> 0]
    /\ n_reports = 0

monitor_vars == << monitor_pc, joined, terminate_sends >>
collector_fields == << best_complete_solution, best_incomplete_solution,
                       best_incomplete_cost, material_limit >>
config_vars == << max_run_time, cost_comparator, initial_material_limit >>
worker_vars == << worker_pc, rx_sync_pos, n_reports >>

\* global_sol_collector.rs:68-70: the loop test; the sleep follows
MonitorLoopTest ==
    /\ monitor_pc = "loop_test"
    /\ monitor_pc' = IF LoopCondition THEN "drain" ELSE "broadcast"
    /\ UNCHANGED << collector_fields, config_vars, worker_vars, tx_syncs,
                    rx_solution_report, running, elapsed, joined, terminate_sends >>

\* global_sol_collector.rs:72-85: one try_recv and the handling of its message
MonitorTryRecv ==
    /\ monitor_pc = "drain"
    /\ IF rx_solution_report # << >>
       THEN \E cs \in { HandleReport(CollectorState, Head(rx_solution_report)) } :
              /\ best_complete_solution' = cs.best_complete_solution
              /\ best_incomplete_solution' = cs.best_incomplete_solution
              /\ best_incomplete_cost' = cs.best_incomplete_cost
              /\ material_limit' = cs.material_limit
              /\ tx_syncs' = cs.tx_syncs
              /\ monitor_pc' = IF cs.panicked THEN "panicked" ELSE "drain"
              /\ rx_solution_report' = Tail(rx_solution_report)
       ELSE /\ monitor_pc' = "check_finished"
            /\ UNCHANGED << collector_fields, tx_syncs, rx_solution_report >>
    /\ UNCHANGED << config_vars, worker_vars, running, elapsed, joined,
                    terminate_sends >>

\* global_sol_collector.rs:86-89
MonitorCheckFinished ==
    /\ monitor_pc = "check_finished"
    /\ monitor_pc' = IF AllFinished THEN "broadcast" ELSE "loop_test"
    /\ UNCHANGED << collector_fields, config_vars, worker_vars, tx_syncs,
                    rx_solution_report, running, elapsed, joined, terminate_sends >>

\* global_sol_collector.rs:93-98: Terminate to every worker, a failed send is
\* ignored
MonitorBroadcastTerminate ==
    /\ monitor_pc = "broadcast"
    /\ tx_syncs' = [w \in Workers |->
                      IF ReceiverAlive(w) THEN Append(tx_syncs[w], Terminate)
                      ELSE tx_syncs[w]]
    /\ terminate_sends' = [w \in Workers |-> terminate_sends[w] + 1]
    /\ monitor_pc' = "join"
    /\ UNCHANGED << collector_fields, config_vars, worker_vars,
                    rx_solution_report, running, elapsed, joined >>

\* global_sol_collector.rs:100-102: join the handles in order, each blocks
\* until its thread has ended
MonitorJoin ==
    /\ monitor_pc = "join"
    /\ IF joined = Workers
       THEN /\ monitor_pc' = "output"
            /\ UNCHANGED joined
       ELSE LET w == CHOOSE v \in Workers \ joined :
                        \A u \in Workers \ joined : v <= u
            IN  /\ worker_pc[w] = "finished"
                /\ joined' = joined \cup {w}
                /\ UNCHANGED monitor_pc
    /\ UNCHANGED << collector_fields, config_vars, worker_vars, tx_syncs,
                    rx_solution_report, running, elapsed, terminate_sends >>

\* global_sol_collector.rs:104-119: the final output
MonitorOutput ==
    /\ monitor_pc = "output"
    /\ monitor_pc' = "done"
    /\ UNCHANGED << collector_fields, config_vars, worker_vars, tx_syncs,
                    rx_solution_report, running, elapsed, joined, terminate_sends >>

\* the monitor is in its while loop, where `running` and the clock are read
InLoop == { "loop_test", "drain", "check_finished" }

\* global_sol_collector.rs:64-66: the Ctrl-C handler
Interrupt ==
    /\ running
    /\ monitor_pc \in InLoop
    /\ running' = FALSE
    /\ UNCHANGED << collector_fields, config_vars, worker_vars, tx_syncs,
                    rx_solution_report, monitor_vars, elapsed >>

\* the wall clock passes a whole second (it is not followed beyond the deadline)
Tick ==
    /\ elapsed < max_run_time
    /\ monitor_pc \in InLoop
    /\ elapsed' = elapsed + 1
    /\ UNCHANGED << collector_fields, config_vars, worker_vars, tx_syncs,
                    rx_solution_report, monitor_vars, running >>

\* a panic of the main thread, which runs the monitor, ends the process and
\* its worker threads with it
ProcessAlive == monitor_pc # "panicked"

\* a worker sends a report
WorkerReport ==
    /\ ProcessAlive
    /\ n_reports < MaxReports
    /\ \E w \in Workers :
         /\ worker_pc[w] = "running"
         /\ \E kind \in ReportKinds :
              \E cost \in (IF kind = "NewCompleteSolution" THEN CompleteCosts
                           ELSE IncompleteCosts) :
                 rx_solution_report' =
                     Append(rx_solution_report, Report(kind, Solution(cost)))
    /\ n_reports' = n_reports + 1
    /\ UNCHANGED << collector_fields, config_vars, tx_syncs, monitor_vars,
                    running, elapsed, worker_pc, rx_sync_pos >>

\* a worker takes the next message from its sync channel between two
\* iterations; on Terminate it leaves its loop and the thread ends
WorkerRecvSync ==
    /\ ProcessAlive
    /\ \E w \in Workers :
         /\ worker_pc[w] = "running"
         /\ rx_sync_pos[w] < Len(tx_syncs[w])
         /\ rx_sync_pos' = [rx_sync_pos EXCEPT ![w] = @ + 1]
         /\ worker_pc' = IF tx_syncs[w][rx_sync_pos[w] + 1] = Terminate
                         THEN [worker_pc EXCEPT ![w] = "finished"]
                         ELSE worker_pc
    /\ UNCHANGED << collector_fields, config_vars, tx_syncs, rx_solution_report,
                    monitor_vars, running, elapsed, n_reports >>

\* a worker ends on its own, its time budget used up
WorkerExit ==
    /\ ProcessAlive
    /\ \E w \in Workers :
         /\ worker_pc[w] = "running"
         /\ worker_pc' = [worker_pc EXCEPT ![w] = "finished"]
    /\ UNCHANGED << collector_fields, config_vars, tx_syncs, rx_solution_report,
                    monitor_vars, running, elapsed, rx_sync_pos, n_reports >>

\* ------------------------------------------------ properties of the collector
\* the monitor takes the head of the report channel and handles it
IsHandleStep ==
    /\ monitor_pc = "drain"
    /\ rx_solution_report # << >>
    /\ rx_solution_report' = Tail(rx_solution_report)

IsHandleCompleteStep ==
    /\ IsHandleStep
    /\ Head(rx_solution_report).kind = "NewCompleteSolution"

HandledSolution == Head(rx_solution_report).solution

\* C2: a NewCompleteSolution report is accepted exactly when its material cost
\* is strictly below material_limit; accepting sets best_complete_solution to
\* the reported solution, clears best_incomplete_cost and
\* best_incomplete_solution and lowers material_limit to the cost; a report at
\* or above the limit changes no field and sends nothing.
C2_CompleteSolutionAcceptance ==
    [][IsHandleCompleteStep =>
         IF HandledSolution.cost.material_cost < material_limit
         THEN /\ best_complete_solution' = Some(HandledSolution)
              /\ best_incomplete_cost' = None
              /\ best_incomplete_solution' = None
              /\ material_limit' = HandledSolution.cost.material_cost
         ELSE /\ UNCHANGED << best_complete_solution, best_incomplete_cost,
                              best_incomplete_solution, material_limit, tx_syncs >>
              /\ monitor_pc' = "drain"]_vars

\* an accepted complete solution replaced what the collector held: the limit
\* came down to its cost and every worker was told
C2_Witness ==
    /\ IsSome(best_complete_solution)
    /\ material_limit = Unwrap(best_complete_solution).cost.material_cost
    /\ material_limit < initial_material_limit
    /\ IsNone(best_incomplete_cost)
    /\ IsNone(best_incomplete_solution)
    /\ \A w \in Workers : tx_syncs[w] # << >>

\* C3: when the monitor accepts a complete solution of material cost c, the
\* step that handles the report appends exactly one SyncMatLimit(c) to the
\* channel of every worker that still holds its receiver.
C3_SyncMatLimitToEveryWorker ==
    [][(IsHandleCompleteStep
          /\ HandledSolution.cost.material_cost < material_limit) =>
         \A w \in Workers :
            ReceiverAlive(w) =>
               tx_syncs'[w] =
                   Append(tx_syncs[w],
                          SyncMatLimit(HandledSolution.cost.material_cost))]_vars

\* the exit conditions of the monitor loop (global_sol_collector.rs:68-69, :86)
ExitCondition == AllFinished \/ ~running \/ elapsed >= max_run_time

TerminateIsLast(w) ==
    \A i \in 1 .. Len(tx_syncs[w]) :
       tx_syncs[w][i] = Terminate => i = Len(tx_syncs[w])

\* C4: monitor sends Terminate to each worker channel at most once and, by the
\* time it joins, exactly once; it has sent none unless an exit condition
\* holds; Terminate is the last message the collector put on a channel; and no
\* worker is joined before the broadcast.
C4_TerminateBroadcast ==
    /\ \A w \in Workers :
          /\ terminate_sends[w] <= 1
          /\ terminate_sends[w] = 1 => ExitCondition
          /\ TerminateIsLast(w)
          /\ monitor_pc \in { "join", "output", "done" } => terminate_sends[w] = 1
          /\ monitor_pc \in InLoop => terminate_sends[w] = 0
    /\ joined # {} => \A w \in Workers : terminate_sends[w] = 1

\* the monitor has ended; a worker that stayed to the end had first a new limit
\* and then Terminate on its channel
C4_Witness ==
    /\ monitor_pc = "done"
    /\ joined = Workers
    /\ \E w \in Workers :
          /\ Len(tx_syncs[w]) >= 2
          /\ tx_syncs[w][1].kind = "SyncMatLimit"
          /\ tx_syncs[w][Len(tx_syncs[w])] = Terminate

\* C5: a worker that has ended and dropped its sync receiver never makes the
\* collector fail.
C5_DisconnectedWorkerHarmless == monitor_pc # "panicked"

IsHandleStatsStep ==
    /\ IsHandleStep
    /\ Head(rx_solution_report).kind = "NewIncompleteStats"

IsHandleIncompleteStep ==
    /\ IsHandleStep
    /\ Head(rx_solution_report).kind = "NewIncompleteSolution"

\* C11: a NewIncompleteStats report changes best_incomplete_cost only while no
\* complete solution has been accepted, and then only to a cost strictly
\* better under the comparator than the stored one (or when none is stored);
\* it changes no other field and sends nothing; so best_incomplete_cost is
\* empty whenever a complete solution is held.
C11_IncompleteStats ==
    /\ [](IsSome(best_complete_solution) => IsNone(best_incomplete_cost))
    /\ [][IsHandleStatsStep =>
            /\ UNCHANGED << best_incomplete_solution, best_complete_solution,
                            material_limit, tx_syncs >>
            /\ \/ UNCHANGED best_incomplete_cost
               \/ /\ best_incomplete_cost' = Some(HandledSolution.cost)
                  /\ IsNone(best_complete_solution)
                  /\ \/ IsNone(best_incomplete_cost)
                     \/ COST_COMPARATOR(HandledSolution.cost,
                                        Unwrap(best_incomplete_cost)) = "Less"
         ]_vars

\* C12: a NewIncompleteSolution report replaces best_incomplete_solution
\* exactly when no complete solution has been accepted and the reported cost
\* is strictly better under the comparator than the stored one (or none is
\* stored); it changes no other field and sends nothing; so
\* best_incomplete_solution is empty whenever a complete solution is held.
C12_IncompleteSolution ==
    /\ [](IsSome(best_complete_solution) => IsNone(best_incomplete_solution))
    /\ [][IsHandleIncompleteStep =>
            /\ UNCHANGED << best_incomplete_cost, best_complete_solution,
                            material_limit, tx_syncs >>
            /\ monitor_pc' = "drain"
            /\ IF /\ IsNone(best_complete_solution)
                  /\ \/ IsNone(best_incomplete_solution)
                     \/ COST_COMPARATOR(HandledSolution.cost,
                            Unwrap(best_incomplete_solution).cost) = "Less"
               THEN best_incomplete_solution' = Some(HandledSolution)
               ELSE UNCHANGED best_incomplete_solution
         ]_vars

\* every report was an incomplete solution and all were handled: the cheapest
\* one is kept
C12_Witness ==
    /\ n_reports = MaxReports
    /\ rx_solution_report = << >>
    /\ IsNone(best_complete_solution)
    /\ IsNone(best_incomplete_cost)
    /\ IsSome(best_incomplete_solution)
    /\ Unwrap(best_incomplete_solution).cost.material_cost = 1

\* C18: material_limit never increases and never exceeds the limit the
\* collector was built with; whenever best_complete_solution is set,
\* material_limit equals its material cost; so a complete solution that passes
\* the material_limit test is never rejected by the comparison with the best
\* complete solution, and every replacement of best_complete_solution has a
\* strictly lower material cost than the solution it replaces.
C18_MaterialLimitTracksBest ==
    /\ [](/\ material_limit <= initial_material_limit
          /\ IsSome(best_complete_solution) =>
                material_limit = Unwrap(best_complete_solution).cost.material_cost)
    /\ [][/\ material_limit' <= material_limit
          /\ best_complete_solution' # best_complete_solution =>
                /\ IsSome(best_complete_solution')
                /\ IsSome(best_complete_solution) =>
                      Unwrap(best_complete_solution').cost.material_cost <
                          Unwrap(best_complete_solution).cost.material_cost
          /\ (IsHandleCompleteStep
                /\ HandledSolution.cost.material_cost < material_limit) =>
                best_complete_solution' = Some(HandledSolution)
         ]_vars

\* two complete solutions were accepted one after the other: the limit came
\* down from above MaxCost to 2 and then to 1
C18_Witness ==
    /\ initial_material_limit = MaxCost + 1
    /\ IsSome(best_complete_solution)
    /\ material_limit = 1
    /\ Unwrap(best_complete_solution).cost.material_cost = 1
    /\ \E w \in Workers :
          /\ Len(tx_syncs[w]) >= 2
          /\ tx_syncs[w][1] = SyncMatLimit(2)
          /\ tx_syncs[w][2] = SyncMatLimit(1)

\* C19: when monitor returns, every report a worker sent has been taken from
\* the report channel and handled: none is left in the channel.
C19_NoReportLeftUndrained ==
    monitor_pc = "done" => rx_solution_report = << >>

\* the SyncMatLimit values put on the channel of worker w, in order
SyncLimits(w) ==
    LET syncs == SelectSeq(tx_syncs[w], LAMBDA m : m.kind = "SyncMatLimit")
    IN  [i \in 1 .. Len(syncs) |-> syncs[i].limit]

\* C20: the SyncMatLimit values on a worker's channel are strictly decreasing
\* and all below the limit the collector was built with, and any two workers
\* that still hold their receivers have been sent the same values in the same
\* order.
C20_SameDecreasingSyncSequence ==
    /\ \A w \in Workers :
          /\ \A i \in 1 .. Len(SyncLimits(w)) :
                SyncLimits(w)[i] < initial_material_limit
          /\ \A i \in 1 .. (Len(SyncLimits(w)) - 1) :
                SyncLimits(w)[i + 1] < SyncLimits(w)[i]
    /\ \A v, w \in Workers :
          (ReceiverAlive(v) /\ ReceiverAlive(w)) => SyncLimits(v) = SyncLimits(w)

\* C21: monitor always terminates, the clock advancing and every worker
\* leaving once Terminate is in its inbox: the loop is left, Terminate is
\* broadcast, every join returns and monitor returns.
C21_MonitorTerminates == <>(monitor_pc = "done")

\* the Problem variables where the collector is what is looked at
ProblemUnused ==
    /\ demand = [p \in PartTypes |-> 1]
    /\ stock = [s \in SheetTypes |-> 0]
    /\ debug_build = FALSE
    /\ parttype_qtys = demand
    /\ sheettype_qtys = stock
    /\ layouts = << >>
    /\ empty_layouts = << >>
    /\ counter_layout_id = 0
    /\ heap = << >>
    /\ problem_pc = "new"
    /\ last_call = NoCall

\* the collector variables where the Problem is what is looked at
CollectorUnused ==
    /\ max_run_time = 0
    /\ cost_comparator = "MatThenArea"
    /\ best_complete_solution = None
    /\ best_incomplete_solution = None
    /\ best_incomplete_cost = None
    /\ material_limit = 0
    /\ initial_material_limit = 0
    /\ tx_syncs = << >>
    /\ rx_solution_report = << >>
    /\ monitor_pc = "unused"
    /\ running = FALSE
    /\ elapsed = 0
    /\ joined = {}
    /\ terminate_sends = << >>
    /\ worker_pc = << >>
    /\ rx_sync_pos = << >>
    /\ n_reports = 0

\* ================================================================ io::parser
\* ---- generate_instance
\* Rotation::Default
Default == "Default"

\* PartType::new(id, length, height, fixed_rotation)
PartTypeNew(id, length, height, fixed_rotation) ==
    [id |-> id, length |-> length, height |-> height,
     fixed_rotation |-> fixed_rotation]

\* SheetType::new(id, length, height, cost, fixed_rotation) as parser.rs:36-42
\* calls it
SheetTypeNew(id, length, height, cost, fixed_rotation) ==
    [id |-> id, length |-> length, height |-> height, value |-> cost,
     fixed_rotation |-> fixed_rotation]

\* Instance::new(parts, sheets)
InstanceNew(parts, sheets) == [parts |-> parts, sheets |-> sheets]

\* parser.rs:17-30: the loop over json_instance.parttypes, from the entry at
\* position k on, part_id being the counter; the result is the entries as the
\* loop leaves them and the pairs it pushes
RECURSIVE GenerateParts(_, _, _, _)
GenerateParts(json_parts, k, part_id, cfg) ==
    IF k > Len(json_parts) THEN [json |-> << >>, parts |-> << >>]
    ELSE LET json_part == [json_parts[k] EXCEPT !.reference = Some(part_id)]
             parttype == PartTypeNew(part_id, json_part.length, json_part.height,
                             IF cfg.rotation_allowed THEN None ELSE Some(Default))
             demand_ == json_part.demand
             rest == GenerateParts(json_parts, k + 1, (part_id + 1) % UsizeModulus, cfg)
         IN  [json |-> << json_part >> \o rest.json,
              parts |-> << << parttype, demand_ >> >> \o rest.parts]

\* a loader for which an absent stock means that nothing is in stock
StockOrMax_AbsentIsZero(json_stock) ==
    IF IsSome(json_stock) THEN Unwrap(json_stock) ELSE 0

\* parser.rs:43-46
StockOrMax(json_stock) ==
    IF IsSome(json_stock) THEN Unwrap(json_stock) ELSE UsizeMax

\* parser.rs:32-49: the loop over json_instance.sheettypes
RECURSIVE GenerateSheets(_, _, _)
GenerateSheets(json_sheets, k, sheet_id) ==
    IF k > Len(json_sheets) THEN [json |-> << >>, sheets |-> << >>]
    ELSE LET json_sheet == [json_sheets[k] EXCEPT !.reference = Some(sheet_id)]
             sheettype == SheetTypeNew(sheet_id, json_sheet.length, json_sheet.height,
                                       json_sheet.cost, None)
             stock_ == StockOrMax(json_sheet.stock)
             rest == GenerateSheets(json_sheets, k + 1, (sheet_id + 1) % UsizeModulus)
         IN  [json |-> << json_sheet >> \o rest.json,
              sheets |-> << << sheettype, stock_ >> >> \o rest.sheets]

\* parser.rs:16-52: the JsonInstance as it is left and the Instance returned
generate_instance(json, cfg) ==
    LET p == GenerateParts(json.parttypes, 1, 0, cfg)
        sh == GenerateSheets(json.sheettypes, 1, 0)
    IN  [json_instance |-> [json EXCEPT !.parttypes = p.json, !.sheettypes = sh.json],
         instance |-> InstanceNew(p.parts, sh.sheets)]

\* the sequences over S of length 0 .. n
SeqsUpTo(S, n) == UNION { [1 .. k -> S] : k \in 0 .. n }

\* a reference that the document may already hold
StaleReference == Some(UsizeMax)

\* the entries of a JsonInstance as they are read from a document
JsonPartTypes ==
    [length : {1}, height : {1}, demand : 0 .. MaxDemand,
     reference : { None, StaleReference }]
JsonSheetTypes ==
    [length : {1}, height : {1}, cost : {1},
     stock : { None } \cup { Some(q) : q \in 0 .. MaxStock },
     reference : { None, StaleReference }]
\* the documents with up to n_parts part types and n_sheets sheet types
JsonInstances(n_parts, n_sheets) ==
    [name : { "instance" },
     parttypes : SeqsUpTo(JsonPartTypes, n_parts),
     sheettypes : SeqsUpTo(JsonSheetTypes, n_sheets)]
Configs == [rotation_allowed : BOOLEAN]

\* ---- convert_node_bp_to_json_cp_node
Horizontal == "Horizontal"
Vertical == "Vertical"
Orientations == { Horizontal, Vertical }
Flip(o) == IF o = Horizontal THEN Vertical ELSE Horizontal

\* NodeBlueprint
NodeBlueprint(width, height, parttype_id, next_cut_orient, children) ==
    [width |-> width, height |-> height, parttype_id |-> parttype_id,
     next_cut_orient |-> next_cut_orient, children |-> children]

\* the value that stands for a call ended by panic!
Panicked == [panicked |-> TRUE]

\* an orientation written for every node
JsonOrientationOf_Always(node_type, next_cut_orient) ==
    IF next_cut_orient = Horizontal THEN Some("H") ELSE Some("V")

\* parser.rs:108-112
JsonOrientationOf(node_type, next_cut_orient) ==
    IF node_type = "Structure" /\ next_cut_orient = Horizontal THEN Some("H")
    ELSE IF node_type = "Structure" /\ next_cut_orient = Vertical THEN Some("V")
    ELSE None

\* parser.rs:99-106
JsonNodeTypeOf(n) ==
    IF IsNone(n.parttype_id) /\ n.children = << >> THEN "Leftover"
    ELSE IF IsNone(n.parttype_id) /\ n.children # << >> THEN "Structure"
    ELSE IF IsSome(n.parttype_id) /\ n.children = << >> THEN "Item"
    ELSE "panic"

\* parser.rs:91-127
RECURSIVE convert_node_bp_to_json_cp_node(_)
convert_node_bp_to_json_cp_node(n) ==
    LET children == [i \in DOMAIN n.children |->
                        convert_node_bp_to_json_cp_node(n.children[i])]
        length == n.width
        height == n.height
        node_type == JsonNodeTypeOf(n)
        orientation == JsonOrientationOf(node_type, n.next_cut_orient)
        item == IF node_type = "Item" THEN Some(Unwrap(n.parttype_id)) ELSE None
    IN  IF (\E i \in DOMAIN children : children[i] = Panicked) \/ node_type = "panic"
        THEN Panicked
        ELSE [length |-> length, height |-> height, orientation |-> orientation,
              node_type |-> node_type, item |-> item, children |-> children]

\* The node trees of a layout: a leaf is a Leftover or an Item; the children
\* of a Structure tile it along its cut orientation (Vertical: side by side,
\* Horizontal: stacked) and cut the other way.
NodeLeaves(w, h, o) ==
    { NodeBlueprint(w, h, k, o, << >>) :
        k \in { None } \cup { Some(p) : p \in PartTypes } }

\* the ways to cut a side of length n in two
Cuts(n) == { << k, n - k >> : k \in 1 .. (n - 1) }

\* the sequences whose i-th element is in sets[i]
RECURSIVE Product(_)
Product(sets) ==
    IF sets = << >> THEN { << >> }
    ELSE { << x >> \o r : x \in Head(sets), r \in Product(Tail(sets)) }

ChildWidth(w, o, part) == IF o = Vertical THEN part ELSE w
ChildHeight(h, o, part) == IF o = Vertical THEN h ELSE part

\* a Structure over leaves
NodeStrips(w, h, o) ==
    UNION { { NodeBlueprint(w, h, None, o, ch) :
                ch \in Product([i \in DOMAIN c |->
                          NodeLeaves(ChildWidth(w, o, c[i]), ChildHeight(h, o, c[i]),
                                     Flip(o))]) } :
            c \in Cuts(IF o = Vertical THEN w ELSE h) }

\* a Structure over leaves and Structures over leaves
NodeGrids(w, h, o) ==
    UNION { { NodeBlueprint(w, h, None, o, ch) :
                ch \in Product([i \in DOMAIN c |->
                          NodeLeaves(ChildWidth(w, o, c[i]), ChildHeight(h, o, c[i]),
                                     Flip(o))
                          \cup NodeStrips(ChildWidth(w, o, c[i]),
                                          ChildHeight(h, o, c[i]), Flip(o))]) } :
            c \in Cuts(IF o = Vertical THEN w ELSE h) }

\* the node trees with sides up to max_dim
NodeTrees(max_dim) ==
    UNION { NodeLeaves(w, h, o) \cup NodeGrids(w, h, o) :
            w \in 1 .. max_dim, h \in 1 .. max_dim, o \in Orientations }

\* ---- the parser's variables where another part is looked at, and the
\* ---- other parts where the parser is
NoNode == NodeBlueprint(1, 1, None, Horizontal, << >>)
NoJsonInstance == [name |-> "instance", parttypes |-> << >>, sheettypes |-> << >>]

ParserUnused ==
    /\ json_instance = NoJsonInstance
    /\ config = [rotation_allowed |-> FALSE]
    /\ instance = None
    /\ node_bp = NoNode
    /\ cp_node = None
    /\ parser_pc = "unused"

\* a JsonInstance has been read from a document
InstanceLoaded ==
    /\ json_instance \in JsonInstances(NumPartTypes, NumSheetTypes)
    /\ config \in Configs
    /\ instance = None
    /\ node_bp = NoNode
    /\ cp_node = None
    /\ parser_pc = "loaded"

\* parser.rs:16-52
GenerateInstance ==
    /\ parser_pc = "loaded"
    /\ \E r \in { generate_instance(json_instance, config) } :
          /\ json_instance' = r.json_instance
          /\ instance' = Some(r.instance)
    /\ parser_pc' = "generated"
    /\ UNCHANGED << config, node_bp, cp_node >>

\* a layout's top node is about to be written out
NodeGiven ==
    /\ node_bp \in NodeTrees(MaxDim)
    /\ cp_node = None
    /\ json_instance = NoJsonInstance
    /\ config = [rotation_allowed |-> FALSE]
    /\ instance = None
    /\ parser_pc = "given"

\* parser.rs:81-89: convert_layout_to_json_cp converts the top node
ConvertNode ==
    /\ parser_pc = "given"
    /\ cp_node' = Some(convert_node_bp_to_json_cp_node(node_bp))
    /\ parser_pc' = "converted"
    /\ UNCHANGED << json_instance, config, instance, node_bp >>

\* ------------------------------------------------ properties of the parser
\* the CPNode c has the shape and the contents the node n asks for
RECURSIVE CPNodeMatches(_, _)
CPNodeMatches(n, c) ==
    /\ c # Panicked
    /\ c.length = n.width
    /\ c.height = n.height
    /\ Len(c.children) = Len(n.children)
    /\ c.node_type =
          (IF IsSome(n.parttype_id) THEN "Item"
           ELSE IF n.children = << >> THEN "Leftover" ELSE "Structure")
    /\ IsSome(c.orientation) <=> c.node_type = "Structure"
    /\ IsSome(c.item) <=> c.node_type = "Item"
    /\ c.node_type = "Item" => c.item = n.parttype_id
    /\ \A i \in DOMAIN n.children : CPNodeMatches(n.children[i], c.children[i])

\* C13: convert_node_bp_to_json_cp_node returns a CPNode tree of the shape of
\* the node tree (children in number and order, length and height at every
\* node), with node_type Leftover, Structure or Item by part type and
\* children, orientation present exactly for Structure and item exactly for
\* Item.
C13_ConvertNode ==
    parser_pc = "converted" =>
        /\ IsSome(cp_node)
        /\ CPNodeMatches(node_bp, Unwrap(cp_node))

\* a tree three levels deep has been converted: a Structure over a Structure
\* over an Item, beside a Leftover
C13_Witness ==
    /\ parser_pc = "converted"
    /\ Unwrap(cp_node) # Panicked
    /\ Unwrap(cp_node).node_type = "Structure"
    /\ \E i, j \in DOMAIN Unwrap(cp_node).children :
          /\ Unwrap(cp_node).children[i].node_type = "Leftover"
          /\ Unwrap(cp_node).children[j].node_type = "Structure"
          /\ \E k \in DOMAIN Unwrap(cp_node).children[j].children :
                Unwrap(cp_node).children[j].children[k].node_type = "Item"

Init == ProblemNew /\ CollectorUnused /\ ParserUnused

Next ==
    \/ SeedEmptyLayouts /\ UNCHANGED << collector_vars, parser_vars >>
    \/ CallerCopiesLayout /\ UNCHANGED << collector_vars, parser_vars >>
    \/ Commit /\ UNCHANGED << collector_vars, parser_vars >>
    \/ RemoveNode /\ UNCHANGED << collector_vars, parser_vars >>

Spec == Init /\ [][Next]_vars

\* ---------------------------------- the collector and its worker threads
CollectorInit == CollectorNew /\ ProblemUnused /\ ParserUnused

CollectorNext ==
    \/ MonitorLoopTest /\ UNCHANGED << problem_vars, parser_vars >>
    \/ MonitorTryRecv /\ UNCHANGED << problem_vars, parser_vars >>
    \/ MonitorCheckFinished /\ UNCHANGED << problem_vars, parser_vars >>
    \/ MonitorBroadcastTerminate /\ UNCHANGED << problem_vars, parser_vars >>
    \/ MonitorJoin /\ UNCHANGED << problem_vars, parser_vars >>
    \/ MonitorOutput /\ UNCHANGED << problem_vars, parser_vars >>
    \/ Interrupt /\ UNCHANGED << problem_vars, parser_vars >>
    \/ Tick /\ UNCHANGED << problem_vars, parser_vars >>
    \/ WorkerReport /\ UNCHANGED << problem_vars, parser_vars >>
    \/ WorkerRecvSync /\ UNCHANGED << problem_vars, parser_vars >>
    \/ WorkerExit /\ UNCHANGED << problem_vars, parser_vars >>

CollectorSpec == CollectorInit /\ [][CollectorNext]_vars

\* one step of the thread that runs monitor (global_sol_collector.rs:59-120)
MonitorStep ==
    /\ \/ MonitorLoopTest
       \/ MonitorTryRecv
       \/ MonitorCheckFinished
       \/ MonitorBroadcastTerminate
       \/ MonitorJoin
       \/ MonitorOutput
    /\ UNCHANGED << problem_vars, parser_vars >>

\* the clock passes the next second
ClockStep == Tick /\ UNCHANGED << problem_vars, parser_vars >>

\* worker w takes the next message from its sync channel
WorkerTakesSync(w) ==
    /\ WorkerRecvSync
    /\ rx_sync_pos'[w] = rx_sync_pos[w] + 1
    /\ UNCHANGED << problem_vars, parser_vars >>

\* the scheduling monitor relies on: its own thread keeps running, the clock
\* advances, and a worker with a message in its inbox gets to read it
CollectorFairness ==
    /\ WF_vars(MonitorStep)
    /\ WF_vars(ClockStep)
    /\ \A w \in Workers : WF_vars(WorkerTakesSync(w))

CollectorFairSpec == CollectorSpec /\ CollectorFairness

\* ------------------------------------------------------ generate_instance
GenerateInstanceInit == InstanceLoaded /\ ProblemUnused /\ CollectorUnused

GenerateInstanceNext ==
    GenerateInstance /\ UNCHANGED << problem_vars, collector_vars >>

GenerateInstanceSpec == GenerateInstanceInit /\ [][GenerateInstanceNext]_vars

\* ------------------------------------------- convert_node_bp_to_json_cp_node
ConvertNodeInit == NodeGiven /\ ProblemUnused /\ CollectorUnused

ConvertNodeNext == ConvertNode /\ UNCHANGED << problem_vars, collector_vars >>

ConvertNodeSpec == ConvertNodeInit /\ [][ConvertNodeNext]_vars

====
